---- MODULE Spec2Model ----
(***************************************************************************)
(* Model of app.py: UniversalCFGBuilder (parse, parse_block, new_node,     *)
(* connect) and calculate_metrics.                                         *)
(*                                                                         *)
(* Strings are sequences of one-character strings, so that startswith,     *)
(* strip, replace, split and re.sub are computed character by character.   *)
(* The recursion of parse_block is an explicit stack of frames; every      *)
(* frame holds the locals of one parse_block call and the place where the  *)
(* call continues.                                                         *)
(***************************************************************************)
EXTENDS Integers, Sequences, FiniteSets, TLC

(***************************************************************************)
(* State                                                                   *)
(***************************************************************************)
Builders == {"A", "B"}

VARIABLES
    graph,         \* self.graph of each builder
    node_counter,  \* self.node_counter of each builder
    lines,         \* self.lines of each builder
    cursor,        \* self.cursor of each builder (0-based, as in the source)
    mode,          \* self.mode of each builder
    plan,          \* the calls the caller still makes, in order
    active,        \* the builder whose parse call is running, or None
    stack,         \* frames of the running parse_block calls, innermost first
    retval,        \* the value the last ended parse_block call returned
    returned,      \* per builder, the graphs its parse calls returned
    metrics,       \* the records calculate_metrics returned, in order
    hist           \* history of the running (or last) parse call

vars == <<graph, node_counter, lines, cursor, mode, plan, active, stack,
          retval, returned, metrics, hist>>

builder_vars == <<graph, node_counter, lines, cursor, mode>>

(***************************************************************************)
(* Python values                                                           *)
(***************************************************************************)
None == "None"

Truthy(x) == x # None

(***************************************************************************)
(* str methods and re.sub, on sequences of characters                      *)
(***************************************************************************)
Whitespace == {" ", "\t", "\n", "\r"}

startswith(s, p) == Len(s) >= Len(p) /\ SubSeq(s, 1, Len(p)) = p

Contains(s, c) == \E i \in 1..Len(s) : s[i] = c

\* str.find: the first index >= from at which p occurs in s, or 0
MatchAt(s, p, i) == i + Len(p) - 1 <= Len(s) /\ SubSeq(s, i, i + Len(p) - 1) = p

find(s, p, from) ==
    LET hits == {i \in from..Len(s) : MatchAt(s, p, i)}
    IN  IF hits = {} THEN 0
        ELSE CHOOSE i \in hits : \A j \in hits : i <= j

\* str.replace: the occurrences of old, leftmost first and not overlapping
RECURSIVE replace(_, _, _)
replace(s, old, new) ==
    LET i == find(s, old, 1)
    IN  IF i = 0 THEN s
        ELSE SubSeq(s, 1, i - 1) \o new
                 \o replace(SubSeq(s, i + Len(old), Len(s)), old, new)

\* re.sub(marker + '.*', '', s): "." matches every character but "\n"
RECURSIVE re_sub_comment(_, _)
re_sub_comment(marker, s) ==
    LET i == find(s, marker, 1)
        j == find(s, <<"\n">>, i)
    IN  IF i = 0 THEN s
        ELSE IF j = 0 THEN SubSeq(s, 1, i - 1)
        ELSE SubSeq(s, 1, i - 1)
                 \o re_sub_comment(marker, SubSeq(s, j, Len(s)))

\* str.split('\n')
RECURSIVE split(_)
split(s) ==
    LET i == find(s, <<"\n">>, 1)
    IN  IF i = 0 THEN <<s>>
        ELSE <<SubSeq(s, 1, i - 1)>> \o split(SubSeq(s, i + 1, Len(s)))

\* str.strip()
strip(s) ==
    LET keep == {i \in 1..Len(s) : s[i] \notin Whitespace}
    IN  IF keep = {} THEN <<>>
        ELSE SubSeq(s, CHOOSE i \in keep : \A j \in keep : i <= j,
                       CHOOSE i \in keep : \A j \in keep : i >= j)

\* "\n".join(buffer)
RECURSIVE join(_)
join(buffer) ==
    IF buffer = <<>> THEN <<>>
    ELSE IF Len(buffer) = 1 THEN buffer[1]
         ELSE buffer[1] \o <<"\n">> \o join(Tail(buffer))

RECURSIVE StrippedNonEmpty(_)
StrippedNonEmpty(ls) ==
    IF ls = <<>> THEN <<>>
    ELSE IF strip(Head(ls)) # <<>>
         THEN <<strip(Head(ls))>> \o StrippedNonEmpty(Tail(ls))
         ELSE StrippedNonEmpty(Tail(ls))

(***************************************************************************)
(* The literals of the source                                              *)
(***************************************************************************)
kw_if == <<"i", "f">>
kw_elif == <<"e", "l", "i", "f">>
kw_else == <<"e", "l", "s", "e">>
kw_elseif == <<"e", "l", "s", "e", " ", "i", "f">>
kw_for == <<"f", "o", "r">>
kw_while == <<"w", "h", "i", "l", "e">>
kw_return == <<"r", "e", "t", "u", "r", "n">>
lbrace == <<"{">>
rbrace == <<"}">>
lbl_START == <<"S", "T", "A", "R", "T">>
lbl_END == <<"E", "N", "D">>
lbl_Else == <<"E", "l", "s", "e">>
lbl_Merge == <<"M", "e", "r", "g", "e">>
lbl_Exit == <<"E", "x", "i", "t", " ", "L", "o", "o", "p">>

(***************************************************************************)
(* parse, lines 33-42: mode detection and normalisation                    *)
(***************************************************************************)
DetectMode(code_text) ==
    IF Contains(code_text, "{") /\ Contains(code_text, "}")
    THEN "c_style" ELSE "python_style"

Normalize(code_text) ==
    IF DetectMode(code_text) = "c_style"
    THEN LET t1 == re_sub_comment(<<"/", "/">>, code_text)
             t2 == replace(t1, <<"{">>, <<"\n", "{", "\n">>)
             t3 == replace(t2, <<"}">>, <<"\n", "}", "\n">>)
             t4 == replace(t3, <<";">>, <<";", "\n">>)
         IN  replace(t4, kw_elseif, kw_elif)
    ELSE re_sub_comment(<<"#">>, code_text)

SplitLines(code_text) == StrippedNonEmpty(split(Normalize(code_text)))

(***************************************************************************)
(* networkx.DiGraph: a dict of nodes (id -> attributes) and a dict of      *)
(* edges ((u, v) -> attributes).  add_node and add_edge on a key already   *)
(* present replace its attributes: a DiGraph holds at most one edge per    *)
(* ordered pair.                                                           *)
(***************************************************************************)
DiGraph == [node |-> <<>>, edge |-> <<>>]

add_node(G, n, attrs) == [G EXCEPT !.node = (n :> attrs) @@ G.node]

add_edge(G, u, v, label) == [G EXCEPT !.edge = (<<u, v>> :> label) @@ G.edge]

nodes(G) == DOMAIN G.node

edges(G) == DOMAIN G.edge

number_of_nodes(G) == Cardinality(nodes(G))

number_of_edges(G) == Cardinality(edges(G))

out_degree(G, n) == Cardinality({e \in edges(G) : e[1] = n})

(***************************************************************************)
(* UniversalCFGBuilder.new_node and connect.  `self` is the pair of fields *)
(* the two methods read and write: [graph, node_counter].                  *)
(***************************************************************************)
LabelMax == 40
LabelHead == 20
LabelTail == 15

clean_label(label) ==
    LET clean == replace(strip(label), <<"\"">>, <<"'">>)
    IN  IF Len(clean) > LabelMax
        THEN SubSeq(clean, 1, LabelHead) \o <<".", ".", ".">>
                 \o SubSeq(clean, Len(clean) - LabelTail + 1, Len(clean))
        ELSE clean

node_id_of(counter) == "N" \o ToString(counter)

\* new_node numbering from one counter shared by all builder instances
new_node_shared_counter(self, label, shape, style, fillcolor) ==
    LET counter == self.node_counter + 1
        node_id == node_id_of(node_counter["A"] + node_counter["B"] + 1)
    IN  [self    |-> [graph |-> add_node(self.graph, node_id,
                                    [label |-> clean_label(label),
                                     shape |-> shape, style |-> style,
                                     fillcolor |-> fillcolor]),
                      node_counter |-> counter],
         node_id |-> node_id]

new_node(self, label, shape, style, fillcolor) ==
    LET counter == self.node_counter + 1
        node_id == node_id_of(counter)
    IN  [self    |-> [graph |-> add_node(self.graph, node_id,
                                    [label |-> clean_label(label),
                                     shape |-> shape, style |-> style,
                                     fillcolor |-> fillcolor]),
                      node_counter |-> counter],
         node_id |-> node_id]

connect(self, u, v, label) ==
    IF Truthy(u) /\ Truthy(v)
    THEN [self EXCEPT !.graph = add_edge(self.graph, u, v, label)]
    ELSE self

(***************************************************************************)
(* flush_buffer, lines 57-64: the closure over current_node and buffer     *)
(***************************************************************************)
\* flush_buffer without its call of connect
flush_buffer_unconnected(self, current_node, buffer) ==
    IF buffer # <<>>
    THEN LET n == new_node(self, join(buffer), "box", "filled", "white")
         IN  [self |-> n.self, current_node |-> n.node_id, buffer |-> <<>>]
    ELSE [self |-> self, current_node |-> current_node, buffer |-> buffer]

\* flush_buffer without its test of the buffer
flush_buffer_unguarded(self, current_node, buffer) ==
    LET n == new_node(self, join(buffer), "box", "filled", "white")
    IN  [self         |-> connect(n.self, current_node, n.node_id, None),
         current_node |-> n.node_id,
         buffer       |-> <<>>]

flush_buffer(self, current_node, buffer) ==
    IF buffer # <<>>
    THEN LET n == new_node(self, join(buffer), "box", "filled", "white")
         IN  [self         |-> connect(n.self, current_node, n.node_id, None),
              current_node |-> n.node_id,
              buffer       |-> <<>>]
    ELSE [self |-> self, current_node |-> current_node, buffer |-> buffer]

(***************************************************************************)
(* calculate_metrics, lines 173-179.  A dict is a function from its keys;  *)
(* `not G` is true of a graph without nodes.                               *)
(***************************************************************************)
EmptyDict == [k \in {} |-> 0]

\* calculate_metrics counting every node that has an outgoing edge
calculate_metrics_any_successor(G) ==
    IF number_of_nodes(G) = 0 THEN EmptyDict
    ELSE LET n  == number_of_nodes(G)
             e  == number_of_edges(G)
             p  == Cardinality({m \in nodes(G) : out_degree(G, m) >= 1})
             cc == e - n + 2
         IN  [Nodes |-> n, Edges |-> e, Complexity |-> cc,
              Predicates |-> p, Regions |-> cc]

calculate_metrics(G) ==
    IF number_of_nodes(G) = 0 THEN EmptyDict
    ELSE LET n  == number_of_nodes(G)
             e  == number_of_edges(G)
             p  == Cardinality({m \in nodes(G) : out_degree(G, m) > 1})
             cc == e - n + 2
         IN  [Nodes |-> n, Edges |-> e, Complexity |-> cc,
              Predicates |-> p, Regions |-> cc]

(***************************************************************************)
(* Input texts.  A text is the concatenation of at most MaxPieces pieces,  *)
(* or one of the longer programs below (the scenarios of the behaviour     *)
(* description, the default text of main and brace-mode programs).         *)
(***************************************************************************)
\* "a\";#c\n"
p_stmt ==
    <<"a", "\"", ";", "#", "c", "\n">>

\* "if x\n"
p_if ==
    <<"i", "f", " ", "x", "\n">>

\* "else if y\n"
p_elif ==
    <<"e", "l", "s", "e", " ", "i", "f", " ", "y", "\n">>

\* "else\n"
p_else ==
    <<"e", "l", "s", "e", "\n">>

\* "while w {\n"
p_loop ==
    <<"w", "h", "i", "l", "e", " ", "w", " ", "{", "\n">>

\* "return\n"
p_return ==
    <<"r", "e", "t", "u", "r", "n", "\n">>

\* "{\n"
p_open ==
    <<"{", "\n">>

\* "}\n"
p_close ==
    <<"}", "\n">>

\* "a\nb\nc"
scenario_A ==
    <<"a", "\n", "b", "\n", "c">>

\* "if x > 0:\n    a\nelse:\n    b"
scenario_B ==
    <<"i", "f", " ", "x", " ", ">", " ", "0", ":", "\n", " ", " ", " ", " ",
      "a", "\n", "e", "l", "s", "e", ":", "\n", " ", " ", " ", " ", "b">>

\* "if p:\n  a\nelif q:\n  b\nelif r:\n  c\nelse:\n  d"
scenario_C ==
    <<"i", "f", " ", "p", ":", "\n", " ", " ", "a", "\n", "e", "l", "i", "f",
      " ", "q", ":", "\n", " ", " ", "b", "\n", "e", "l", "i", "f", " ", "r",
      ":", "\n", " ", " ", "c", "\n", "e", "l", "s", "e", ":", "\n", " ",
      " ", "d">>

\* "while x:\n  a"
scenario_D ==
    <<"w", "h", "i", "l", "e", " ", "x", ":", "\n", " ", " ", "a">>

\* "if x:\n  return 1\nelse:\n  b"
scenario_E ==
    <<"i", "f", " ", "x", ":", "\n", " ", " ", "r", "e", "t", "u", "r", "n",
      " ", "1", "\n", "e", "l", "s", "e", ":", "\n", " ", " ", "b">>

\* the default text of main (default_py)
default_py ==
    <<"x", " ", "=", " ", "1", "0", "\n", "i", "f", " ", "x", " ", ">", " ",
      "1", "0", "0", ":", "\n", " ", " ", " ", " ", "p", "r", "i", "n", "t",
      "(", "\"", "H", "u", "g", "e", "\"", ")", "\n", "e", "l", "i", "f",
      " ", "x", " ", ">", " ", "5", "0", ":", "\n", " ", " ", " ", " ", "p",
      "r", "i", "n", "t", "(", "\"", "B", "i", "g", "\"", ")", "\n", "e",
      "l", "i", "f", " ", "x", " ", ">", " ", "1", "0", ":", "\n", " ", " ",
      " ", " ", "p", "r", "i", "n", "t", "(", "\"", "M", "e", "d", "i", "u",
      "m", "\"", ")", "\n", "e", "l", "s", "e", ":", "\n", " ", " ", " ",
      " ", "p", "r", "i", "n", "t", "(", "\"", "S", "m", "a", "l", "l", "\"",
      ")", "\n", "\n", "p", "r", "i", "n", "t", "(", "\"", "D", "o", "n",
      "e", "\"", ")">>

\* "while (x) { return; } a;"
c_loop_return ==
    <<"w", "h", "i", "l", "e", " ", "(", "x", ")", " ", "{", " ", "r", "e",
      "t", "u", "r", "n", ";", " ", "}", " ", "a", ";">>

\* "if (x) { return 1; } else { b; } c;"
c_if_return ==
    <<"i", "f", " ", "(", "x", ")", " ", "{", " ", "r", "e", "t", "u", "r",
      "n", " ", "1", ";", " ", "}", " ", "e", "l", "s", "e", " ", "{", " ",
      "b", ";", " ", "}", " ", "c", ";">>

\* "for i in r:\n  if c:\n    return\n  b"
py_for_return ==
    <<"f", "o", "r", " ", "i", " ", "i", "n", " ", "r", ":", "\n", " ", " ",
      "i", "f", " ", "c", ":", "\n", " ", " ", " ", " ", "r", "e", "t", "u",
      "r", "n", "\n", " ", " ", "b">>

\* "t = t + values[index] * weights[index] + 1; // {}"
c_long ==
    <<"t", " ", "=", " ", "t", " ", "+", " ", "v", "a", "l", "u", "e", "s",
      "[", "i", "n", "d", "e", "x", "]", " ", "*", " ", "w", "e", "i", "g",
      "h", "t", "s", "[", "i", "n", "d", "e", "x", "]", " ", "+", " ", "1",
      ";", " ", "/", "/", " ", "{", "}">>

\* "a; { b; } c;"
c_bare_block ==
    <<"a", ";", " ", "{", " ", "b", ";", " ", "}", " ", "c", ";">>

\* "while (w) { } if (x) a; b; else c;"
c_unbraced_else ==
    <<"w", "h", "i", "l", "e", " ", "(", "w", ")", " ", "{", " ", "}", " ",
      "i", "f", " ", "(", "x", ")", " ", "a", ";", " ", "b", ";", " ", "e",
      "l", "s", "e", " ", "c", ";">>

\* "if (x) { } while (w) { if (y) { b;"
c_unclosed ==
    <<"i", "f", " ", "(", "x", ")", " ", "{", " ", "}", " ", "w", "h", "i",
      "l", "e", " ", "(", "w", ")", " ", "{", " ", "i", "f", " ", "(", "y",
      ")", " ", "{", " ", "b", ";">>

Pieces ==
    {p_stmt, p_if, p_elif, p_else, p_loop, p_return, p_open, p_close}

Scenarios ==
    {scenario_A, scenario_B, scenario_C, scenario_D, scenario_E, default_py,
     c_loop_return, c_if_return, py_for_return, c_long, c_bare_block,
     c_unbraced_else, c_unclosed}

MaxPieces == 3
MaxFirst == 1
MaxSecond == 2

RECURSIVE Flatten(_)
Flatten(ps) == IF ps = <<>> THEN <<>> ELSE Head(ps) \o Flatten(Tail(ps))

PieceTexts(n) == {Flatten(ps) : ps \in UNION {[1..k -> Pieces] : k \in 0..n}}

Texts == PieceTexts(MaxPieces) \cup Scenarios

\* The caller's operations
DoParse(b, text) == [op |-> "parse", b |-> b, text |-> text]

DoMetrics(b) == [op |-> "metrics", b |-> b, text |-> <<>>]

\* A frame: the locals of one parse_block call.  pc is the place the call
\* is at; the h_ fields are history (the lines behind buffer, the decision
\* nodes of the chain and their lines, the "{" lines the call skipped), not
\* locals of the source.
NewFrame(entry_node) ==
    [pc |-> "block", current_node |-> entry_node, buffer |-> <<>>,
     loop_cond |-> None, cond_node |-> None, exit_points |-> <<>>,
     last_decision |-> None, elif_node |-> None, else_start |-> None,
     merge_node |-> None,
     h_buf |-> <<>>, h_decisions |-> <<>>, h_lines |-> <<>>, h_open |-> 0]

NoHist ==
    [b |-> None, flushes |-> <<>>, loops |-> <<>>, chains |-> <<>>,
     returns |-> <<>>, buffered |-> {}, peeks |-> <<>>, taken |-> {},
     closed |-> {}, eofs |-> <<>>]

\* UniversalCFGBuilder.__init__
InitBuilders ==
    /\ graph = [b \in Builders |-> DiGraph]
    /\ node_counter = [b \in Builders |-> 0]
    /\ lines = [b \in Builders |-> <<>>]
    /\ cursor = [b \in Builders |-> 0]
    /\ mode = [b \in Builders |-> "c_style"]
    /\ active = None
    /\ stack = <<>>
    /\ retval = None
    /\ returned = [b \in Builders |-> <<>>]
    /\ metrics = <<>>
    /\ hist = NoHist

\* main: one fresh builder parses one text, then the metrics are computed.
\* The first call applies calculate_metrics to the graph of a builder that
\* has parsed nothing.
Init ==
    /\ InitBuilders
    /\ \E t \in Texts : plan = <<DoMetrics("A"), DoParse("A", t), DoMetrics("A")>>

\* One builder instance parses two texts in turn; a fresh one parses the second.
InitReuse ==
    /\ InitBuilders
    /\ \E t1 \in PieceTexts(MaxFirst), t2 \in PieceTexts(MaxSecond) :
           plan = <<DoParse("A", t1), DoParse("A", t2), DoParse("B", t2),
                    DoMetrics("A")>>

\* Two fresh builder instances parse the same text.
InitTwo ==
    /\ InitBuilders
    /\ \E t \in Texts :
           plan = <<DoParse("A", t), DoParse("B", t), DoMetrics("B")>>

(***************************************************************************)
(* Reading the running call                                                *)
(***************************************************************************)
Self == [graph |-> graph[active], node_counter |-> node_counter[active]]

Store(self) ==
    /\ graph' = [graph EXCEPT ![active] = self.graph]
    /\ node_counter' = [node_counter EXCEPT ![active] = self.node_counter]

Frame == Head(stack)

AtEnd == cursor[active] >= Len(lines[active])

Line == lines[active][cursor[active] + 1]

Advance == cursor' = [cursor EXCEPT ![active] = @ + 1]

InBlock == active # None /\ stack # <<>> /\ Frame.pc = "block" /\ retval = None

\* the tests of parse_block's loop body, in the order of the source
IsPeek == startswith(Line, kw_elif) \/ startswith(Line, kw_else)

IsBlockEnd == ~IsPeek /\ mode[active] = "c_style" /\ Line = rbrace

IsBlockStart ==
    ~IsPeek /\ ~IsBlockEnd /\ mode[active] = "c_style" /\ Line = lbrace

IsPlain == ~IsPeek /\ ~IsBlockEnd /\ ~IsBlockStart

IsLoop == IsPlain /\ (startswith(Line, kw_for) \/ startswith(Line, kw_while))

IsIf == IsPlain /\ ~IsLoop /\ startswith(Line, kw_if)

IsReturn == IsPlain /\ ~IsLoop /\ ~IsIf /\ startswith(Line, kw_return)

IsStatement == IsPlain /\ ~IsLoop /\ ~IsIf /\ ~IsReturn

\* history of a flush: the node made of the buffer, if any
HistFlush(h, f, fl) ==
    IF f.buffer # <<>>
    THEN [h EXCEPT !.flushes =
              Append(@, [node |-> fl.current_node, pred |-> f.current_node,
                         buffer |-> f.buffer, idx |-> f.h_buf])]
    ELSE h

(***************************************************************************)
(* parse, lines 31-46: up to the call of parse_block(start_node).  The     *)
(* graph and the id counter are the builder's own: parse does not reset    *)
(* them.                                                                   *)
(***************************************************************************)
Parse ==
    /\ active = None /\ plan # <<>> /\ Head(plan).op = "parse"
    /\ LET b    == Head(plan).b
           text == Head(plan).text
           n    == new_node([graph |-> graph[b],
                             node_counter |-> node_counter[b]],
                            lbl_START, "oval", "filled", "#C8E6C9")
       IN  /\ mode' = [mode EXCEPT ![b] = DetectMode(text)]
           /\ lines' = [lines EXCEPT ![b] = SplitLines(text)]
           /\ cursor' = [cursor EXCEPT ![b] = 0]
           /\ graph' = [graph EXCEPT ![b] = n.self.graph]
           /\ node_counter' = [node_counter EXCEPT ![b] = n.self.node_counter]
           /\ active' = b
           /\ stack' = <<NewFrame(n.node_id)>>
    /\ plan' = Tail(plan)
    /\ hist' = [NoHist EXCEPT !.b = Head(plan).b]
    /\ UNCHANGED <<retval, returned, metrics>>

(***************************************************************************)
(* parse, lines 46-51: parse_block has returned last_node                  *)
(***************************************************************************)
\* END made but not connected from the node parse_block returned
ParseEnd_Unconnected ==
    /\ active # None /\ stack = <<>> /\ retval # None
    /\ LET n == new_node(Self, lbl_END, "oval", "filled", "#FFCDD2")
       IN  /\ Store(n.self)
           /\ returned' = [returned EXCEPT ![active] = Append(@, n.self.graph)]
    /\ active' = None
    /\ retval' = None
    /\ UNCHANGED <<lines, cursor, mode, plan, stack, metrics, hist>>

ParseEnd ==
    /\ active # None /\ stack = <<>> /\ retval # None
    /\ LET n    == new_node(Self, lbl_END, "oval", "filled", "#FFCDD2")
           self == connect(n.self, retval, n.node_id, None)
       IN  /\ Store(self)
           /\ returned' = [returned EXCEPT ![active] = Append(@, self.graph)]
    /\ active' = None
    /\ retval' = None
    /\ UNCHANGED <<lines, cursor, mode, plan, stack, metrics, hist>>

(***************************************************************************)
(* parse_block, lines 73-75: the block stops at elif/else, line not taken  *)
(***************************************************************************)
PeekStop ==
    /\ InBlock /\ ~AtEnd /\ IsPeek
    /\ LET f  == Frame
           fl == flush_buffer(Self, f.current_node, f.buffer)
       IN  /\ Store(fl.self)
           /\ retval' = fl.current_node
           /\ hist' = [HistFlush(hist, f, fl) EXCEPT !.peeks =
                          Append(@, [line |-> cursor[active],
                                     callers |-> [k \in 1..(Len(stack) - 1) |->
                                                     stack[k + 1].pc]])]
    /\ stack' = Tail(stack)
    /\ UNCHANGED <<lines, cursor, mode, plan, active, returned, metrics>>

(***************************************************************************)
(* parse_block, lines 78-81: a "}" line ends the block (c_style)           *)
(***************************************************************************)
\* the "}" line ends the block without being consumed
BlockEnd_NotConsumed ==
    /\ InBlock /\ ~AtEnd /\ IsBlockEnd
    /\ LET f  == Frame
           fl == flush_buffer(Self, f.current_node, f.buffer)
       IN  /\ Store(fl.self)
           /\ retval' = fl.current_node
           /\ hist' = [HistFlush(hist, f, fl) EXCEPT !.closed =
                          @ \cup {cursor[active]}]
    /\ stack' = Tail(stack)
    /\ UNCHANGED <<lines, cursor, mode, plan, active, returned, metrics>>

BlockEnd ==
    /\ InBlock /\ ~AtEnd /\ IsBlockEnd
    /\ LET f  == Frame
           fl == flush_buffer(Self, f.current_node, f.buffer)
       IN  /\ Store(fl.self)
           /\ retval' = fl.current_node
           /\ hist' = [HistFlush(hist, f, fl) EXCEPT !.closed =
                          @ \cup {cursor[active]}]
    /\ Advance
    /\ stack' = Tail(stack)
    /\ UNCHANGED <<lines, mode, plan, active, returned, metrics>>

(***************************************************************************)
(* parse_block, lines 84-86: a "{" line is skipped (c_style)               *)
(***************************************************************************)
SkipBlockStart ==
    /\ InBlock /\ ~AtEnd /\ IsBlockStart
    /\ Advance
    /\ stack' = <<[Frame EXCEPT !.h_open = @ + 1]>> \o Tail(stack)
    /\ UNCHANGED <<graph, node_counter, lines, mode, plan, active, retval,
                   returned, metrics, hist>>

(***************************************************************************)
(* parse_block, lines 89-95: loop header, up to the call for the body      *)
(***************************************************************************)
\* the loop header is not consumed before the call for the body
LoopHeader_NotConsumed ==
    /\ InBlock /\ ~AtEnd /\ IsLoop
    /\ LET f    == Frame
           fl   == flush_buffer(Self, f.current_node, f.buffer)
           n    == new_node(fl.self, Line, "diamond", "filled", "#FFF9C4")
           self == connect(n.self, fl.current_node, n.node_id, None)
       IN  /\ Store(self)
           /\ stack' = <<NewFrame(n.node_id),
                         [f EXCEPT !.pc = "loop_body",
                                   !.current_node = fl.current_node,
                                   !.buffer = fl.buffer,
                                   !.h_buf = <<>>,
                                   !.loop_cond = n.node_id]>>
                       \o Tail(stack)
           /\ hist' = HistFlush(hist, f, fl)
    /\ UNCHANGED <<lines, cursor, mode, plan, active, retval, returned, metrics>>

LoopHeader ==
    /\ InBlock /\ ~AtEnd /\ IsLoop
    /\ LET f    == Frame
           fl   == flush_buffer(Self, f.current_node, f.buffer)
           n    == new_node(fl.self, Line, "diamond", "filled", "#FFF9C4")
           self == connect(n.self, fl.current_node, n.node_id, None)
       IN  /\ Store(self)
           /\ stack' = <<NewFrame(n.node_id),
                         [f EXCEPT !.pc = "loop_body",
                                   !.current_node = fl.current_node,
                                   !.buffer = fl.buffer,
                                   !.h_buf = <<>>,
                                   !.loop_cond = n.node_id]>>
                       \o Tail(stack)
           /\ hist' = HistFlush(hist, f, fl)
    /\ Advance
    /\ UNCHANGED <<lines, mode, plan, active, retval, returned, metrics>>

(***************************************************************************)
(* parse_block, lines 95-100: the body returned body_end                   *)
(***************************************************************************)
\* the loop without a back-edge from a body that ended by a return line
LoopClose_NoBackEdgeAfterReturn(self, body_end, loop_cond) ==
    LET s1 == IF self.graph.node[body_end].fillcolor = "#FFCDD2"
              THEN self
              ELSE connect(self, body_end, loop_cond, "Loop")
        n  == new_node(s1, lbl_Exit, "point", "filled", "white")
    IN  [self      |-> connect(n.self, loop_cond, n.node_id, "False"),
         exit_node |-> n.node_id]

\* lines 96-99: the back-edge, the exit node and the edge to it
LoopClose(self, body_end, loop_cond) ==
    LET s1 == connect(self, body_end, loop_cond, "Loop")
        n  == new_node(s1, lbl_Exit, "point", "filled", "white")
    IN  [self      |-> connect(n.self, loop_cond, n.node_id, "False"),
         exit_node |-> n.node_id]

LoopExit ==
    /\ active # None /\ stack # <<>> /\ Frame.pc = "loop_body"
    /\ retval # None
    /\ LET f == Frame
           c == LoopClose(Self, retval, f.loop_cond)
       IN  /\ Store(c.self)
           /\ stack' = <<[f EXCEPT !.pc = "block",
                                   !.current_node = c.exit_node]>>
                       \o Tail(stack)
           /\ hist' = [hist EXCEPT !.loops =
                          Append(@, [header |-> f.loop_cond,
                                     pred |-> f.current_node,
                                     body_end |-> retval,
                                     exit |-> c.exit_node])]
    /\ retval' = None
    /\ UNCHANGED <<lines, cursor, mode, plan, active, returned, metrics>>

(***************************************************************************)
(* parse_block, lines 103-113: if header, up to the call for the branch    *)
(***************************************************************************)
IfHeader ==
    /\ InBlock /\ ~AtEnd /\ IsIf
    /\ LET f    == Frame
           fl   == flush_buffer(Self, f.current_node, f.buffer)
           n    == new_node(fl.self, Line, "diamond", "filled", "#FFE0B2")
           self == connect(n.self, fl.current_node, n.node_id, None)
       IN  /\ Store(self)
           /\ stack' = <<NewFrame(n.node_id),
                         [f EXCEPT !.pc = "true_branch",
                                   !.current_node = fl.current_node,
                                   !.buffer = fl.buffer,
                                   !.h_buf = <<>>,
                                   !.exit_points = <<>>,
                                   !.cond_node = n.node_id,
                                   !.elif_node = None,
                                   !.else_start = None,
                                   !.h_decisions = <<n.node_id>>,
                                   !.h_lines = <<cursor[active]>>]>>
                       \o Tail(stack)
           /\ hist' = HistFlush(hist, f, fl)
    /\ Advance
    /\ UNCHANGED <<lines, mode, plan, active, retval, returned, metrics>>

(***************************************************************************)
(* parse_block, lines 113-116: the true branch returned true_end           *)
(***************************************************************************)
TrueBranchDone ==
    /\ active # None /\ stack # <<>> /\ Frame.pc = "true_branch"
    /\ retval # None
    /\ stack' = <<[Frame EXCEPT !.pc = "chain",
                                !.exit_points = Append(@, retval),
                                !.last_decision = Frame.cond_node]>>
                \o Tail(stack)
    /\ retval' = None
    /\ UNCHANGED <<builder_vars, plan, active, returned, metrics, hist>>

\* the tests of the chain loop, lines 121-143
ChainLine == lines[active][cursor[active] + 1]

ChainIsElif ==
    ~AtEnd /\ (startswith(ChainLine, kw_elif) \/ startswith(ChainLine, kw_elseif))

ChainIsElse == ~AtEnd /\ ~ChainIsElif /\ startswith(ChainLine, kw_else)

InChain == active # None /\ stack # <<>> /\ Frame.pc = "chain" /\ retval = None

(***************************************************************************)
(* parse_block, lines 124-129: elif line, up to the call for its branch    *)
(***************************************************************************)
ChainElif ==
    /\ InChain /\ ChainIsElif
    /\ LET f    == Frame
           n    == new_node(Self, ChainLine, "diamond", "filled", "#FFE0B2")
           self == connect(n.self, f.last_decision, n.node_id, "False")
       IN  /\ Store(self)
           /\ stack' = <<NewFrame(n.node_id),
                         [f EXCEPT !.pc = "elif_branch",
                                   !.elif_node = n.node_id,
                                   !.h_decisions = Append(@, n.node_id),
                                   !.h_lines = Append(@, cursor[active])]>>
                       \o Tail(stack)
    /\ hist' = [hist EXCEPT !.taken = @ \cup {cursor[active]}]
    /\ Advance
    /\ UNCHANGED <<lines, mode, plan, active, retval, returned, metrics>>

(***************************************************************************)
(* parse_block, lines 129-131: the elif branch returned elif_end           *)
(***************************************************************************)
ElifDone ==
    /\ active # None /\ stack # <<>> /\ Frame.pc = "elif_branch"
    /\ retval # None
    /\ stack' = <<[Frame EXCEPT !.pc = "chain",
                                !.exit_points = Append(@, retval),
                                !.last_decision = Frame.elif_node]>>
                \o Tail(stack)
    /\ retval' = None
    /\ UNCHANGED <<builder_vars, plan, active, returned, metrics, hist>>

(***************************************************************************)
(* parse_block, lines 133-138: else line, up to the call for its branch    *)
(***************************************************************************)
ChainElse ==
    /\ InChain /\ ChainIsElse
    /\ LET f    == Frame
           n    == new_node(Self, lbl_Else, "point", "filled", "white")
           self == connect(n.self, f.last_decision, n.node_id, "False")
       IN  /\ Store(self)
           /\ stack' = <<NewFrame(n.node_id),
                         [f EXCEPT !.pc = "else_branch",
                                   !.else_start = n.node_id]>>
                       \o Tail(stack)
    /\ hist' = [hist EXCEPT !.taken = @ \cup {cursor[active]}]
    /\ Advance
    /\ UNCHANGED <<lines, mode, plan, active, retval, returned, metrics>>

(***************************************************************************)
(* parse_block, lines 138-141: the else branch returned else_end; break    *)
(***************************************************************************)
\* the else branch without closing the chain (last_decision kept)
ElseDone_ChainLeftOpen ==
    /\ active # None /\ stack # <<>> /\ Frame.pc = "else_branch"
    /\ retval # None
    /\ stack' = <<[Frame EXCEPT !.pc = "merge",
                                !.exit_points = Append(@, retval)]>>
                \o Tail(stack)
    /\ retval' = None
    /\ UNCHANGED <<builder_vars, plan, active, returned, metrics, hist>>

ElseDone ==
    /\ active # None /\ stack # <<>> /\ Frame.pc = "else_branch"
    /\ retval # None
    /\ stack' = <<[Frame EXCEPT !.pc = "merge",
                                !.exit_points = Append(@, retval),
                                !.last_decision = None]>>
                \o Tail(stack)
    /\ retval' = None
    /\ UNCHANGED <<builder_vars, plan, active, returned, metrics, hist>>

(***************************************************************************)
(* parse_block, lines 121 and 142-143: the chain loop ends at the end of   *)
(* the input or at a line that is neither elif nor else                    *)
(***************************************************************************)
\* the chain loop stepping the cursor back from the line it looked at
ChainBreak_Unread ==
    /\ InChain /\ ~ChainIsElif /\ ~ChainIsElse
    /\ stack' = <<[Frame EXCEPT !.pc = "merge"]>> \o Tail(stack)
    /\ cursor' = [cursor EXCEPT ![active] = @ - 1]
    /\ UNCHANGED <<graph, node_counter, lines, mode, plan, active, retval,
                   returned, metrics, hist>>

ChainBreak ==
    /\ InChain /\ ~ChainIsElif /\ ~ChainIsElse
    /\ stack' = <<[Frame EXCEPT !.pc = "merge"]>> \o Tail(stack)
    /\ UNCHANGED <<builder_vars, plan, active, retval, returned, metrics, hist>>

(***************************************************************************)
(* parse_block, lines 146-153: the merge node, in two steps                 *)
(***************************************************************************)
RECURSIVE ConnectAll(_, _, _)
ConnectAll(self, exit_points, merge_node) ==
    IF exit_points = <<>> THEN self
    ELSE ConnectAll(connect(self, Head(exit_points), merge_node, None),
                    Tail(exit_points), merge_node)

\* the merge without the edges from branches that ended by a return line
MergeExits_SkipReturns(self, exit_points, merge_node) ==
    ConnectAll(self,
               SelectSeq(exit_points,
                   LAMBDA p : self.graph.node[p].fillcolor # "#FFCDD2"),
               merge_node)

\* lines 147-148: for p in exit_points: self.connect(p, merge_node)
MergeExits(self, exit_points, merge_node) ==
    ConnectAll(self, exit_points, merge_node)

\* lines 150-151: if last_decision: self.connect(last_decision, merge_node, "False")
ConnectLastDecision(self, last_decision, merge_node) ==
    IF Truthy(last_decision)
    THEN connect(self, last_decision, merge_node, "False")
    ELSE self

\* lines 146-148: the merge node and the edges from the ends of the branches
Merge ==
    /\ active # None /\ stack # <<>> /\ Frame.pc = "merge" /\ retval = None
    /\ LET f    == Frame
           n    == new_node(Self, lbl_Merge, "point", "filled", "white")
           self == MergeExits(n.self, f.exit_points, n.node_id)
       IN  /\ Store(self)
           /\ stack' = <<[f EXCEPT !.pc = "merge_decision",
                                   !.merge_node = n.node_id]>>
                       \o Tail(stack)
    /\ UNCHANGED <<lines, cursor, mode, plan, active, retval, returned,
                   metrics, hist>>

\* lines 150-153: the False edge of a chain without else; the block goes on
MergeDecision ==
    /\ active # None /\ stack # <<>> /\ Frame.pc = "merge_decision"
    /\ retval = None
    /\ LET f    == Frame
           self == ConnectLastDecision(Self, f.last_decision, f.merge_node)
       IN  /\ Store(self)
           /\ stack' = <<[f EXCEPT !.pc = "block",
                                   !.current_node = f.merge_node]>>
                       \o Tail(stack)
           /\ hist' = [hist EXCEPT !.chains =
                          Append(@, [decisions |-> f.h_decisions,
                                     dec_lines |-> f.h_lines,
                                     pred |-> f.current_node,
                                     else_start |-> f.else_start,
                                     exit_points |-> f.exit_points,
                                     last_decision |-> f.last_decision,
                                     merge |-> f.merge_node])]
    /\ UNCHANGED <<lines, cursor, mode, plan, active, retval, returned, metrics>>

(***************************************************************************)
(* parse_block, lines 156-161: return line                                 *)
(***************************************************************************)
Return ==
    /\ InBlock /\ ~AtEnd /\ IsReturn
    /\ LET f    == Frame
           fl   == flush_buffer(Self, f.current_node, f.buffer)
           n    == new_node(fl.self, Line, "box", "filled", "#FFCDD2")
           self == connect(n.self, fl.current_node, n.node_id, None)
       IN  /\ Store(self)
           /\ retval' = n.node_id
           /\ hist' = [HistFlush(hist, f, fl) EXCEPT !.returns =
                          Append(@, [node |-> n.node_id,
                                     pred |-> fl.current_node,
                                     line |-> cursor[active],
                                     depth |-> Len(stack),
                                     braced |-> f.h_open > 0])]
    /\ Advance
    /\ stack' = Tail(stack)
    /\ UNCHANGED <<lines, mode, plan, active, returned, metrics>>

(***************************************************************************)
(* parse_block, lines 164-166: any other line goes to the buffer           *)
(***************************************************************************)
Statement ==
    /\ InBlock /\ ~AtEnd /\ IsStatement
    /\ stack' = <<[Frame EXCEPT !.buffer = Append(@, Line),
                                !.h_buf = Append(@, cursor[active])]>>
                \o Tail(stack)
    /\ hist' = [hist EXCEPT !.buffered = @ \cup {cursor[active]}]
    /\ Advance
    /\ UNCHANGED <<graph, node_counter, lines, mode, plan, active, retval,
                   returned, metrics>>

(***************************************************************************)
(* parse_block, lines 66 and 168-169: the end of the input                 *)
(***************************************************************************)
\* the end of the input ends the block without flushing its buffer
EndOfInput_NoFlush ==
    /\ InBlock /\ AtEnd
    /\ LET f == Frame
       IN  /\ retval' = f.current_node
           /\ hist' = [hist EXCEPT !.eofs =
                          Append(@, [depth |-> Len(stack),
                                     braced |-> f.h_open > 0,
                                     buffer |-> f.buffer,
                                     pred |-> f.current_node,
                                     node |-> f.current_node,
                                     callers |-> [k \in 1..(Len(stack) - 1) |->
                                        [pc |-> stack[k + 1].pc,
                                         loop_cond |-> stack[k + 1].loop_cond,
                                         cond_node |-> stack[k + 1].cond_node]]])]
    /\ stack' = Tail(stack)
    /\ UNCHANGED <<graph, node_counter, lines, cursor, mode, plan, active,
                   returned, metrics>>

EndOfInput ==
    /\ InBlock /\ AtEnd
    /\ LET f  == Frame
           fl == flush_buffer(Self, f.current_node, f.buffer)
       IN  /\ Store(fl.self)
           /\ retval' = fl.current_node
           /\ hist' = [HistFlush(hist, f, fl) EXCEPT !.eofs =
                          Append(@, [depth |-> Len(stack),
                                     braced |-> f.h_open > 0,
                                     buffer |-> f.buffer,
                                     pred |-> f.current_node,
                                     node |-> fl.current_node,
                                     callers |-> [k \in 1..(Len(stack) - 1) |->
                                        [pc |-> stack[k + 1].pc,
                                         loop_cond |-> stack[k + 1].loop_cond,
                                         cond_node |-> stack[k + 1].cond_node]]])]
    /\ stack' = Tail(stack)
    /\ UNCHANGED <<lines, cursor, mode, plan, active, returned, metrics>>

(***************************************************************************)
(* main, line 211: calculate_metrics on a builder's graph                  *)
(***************************************************************************)
CalcMetrics ==
    /\ active = None /\ plan # <<>> /\ Head(plan).op = "metrics"
    /\ metrics' = Append(metrics, calculate_metrics(graph[Head(plan).b]))
    /\ plan' = Tail(plan)
    /\ UNCHANGED <<builder_vars, active, stack, retval, returned, hist>>

Next ==
    \/ Parse
    \/ ParseEnd
    \/ PeekStop
    \/ BlockEnd
    \/ SkipBlockStart
    \/ LoopHeader
    \/ LoopExit
    \/ IfHeader
    \/ TrueBranchDone
    \/ ChainElif
    \/ ElifDone
    \/ ChainElse
    \/ ElseDone
    \/ ChainBreak
    \/ Merge
    \/ MergeDecision
    \/ Return
    \/ Statement
    \/ EndOfInput
    \/ CalcMetrics

Spec == Init /\ [][Next]_vars

SpecReuse == InitReuse /\ [][Next]_vars

SpecTwo == InitTwo /\ [][Next]_vars

(***************************************************************************)
(* Graph notions used by the properties                                    *)
(***************************************************************************)
Successors(G, S) == {e[2] : e \in {d \in edges(G) : d[1] \in S}}

RECURSIVE ReachableFrom(_, _)
ReachableFrom(G, S) ==
    IF Successors(G, S) \subseteq S THEN S
    ELSE ReachableFrom(G, S \cup Successors(G, S))

in_degree(G, n) == Cardinality({e \in edges(G) : e[2] = n})

Roots(G) == {n \in nodes(G) : in_degree(G, n) = 0}

HasEdge(G, u, v, label) == <<u, v>> \in edges(G) /\ G.edge[<<u, v>>] = label

InEdges(G, n) == {e \in edges(G) : e[2] = n}

IsNode(G, n, label, shape, fillcolor) ==
    /\ n \in nodes(G)
    /\ G.node[n] = [label |-> label, shape |-> shape, style |-> "filled",
                    fillcolor |-> fillcolor]

\* the graph of the builder whose parse call hist describes
HG == graph[hist.b]

\* the first graph that builder b returned
Returned(b) == returned[b][1]

(***************************************************************************)
(* C1: every graph a fresh builder's parse returns has exactly one node    *)
(* of in-degree 0, the START node, and every node is reachable from it.    *)
(***************************************************************************)
C1_SingleEntry ==
    \A b \in Builders :
        returned[b] # <<>> =>
            LET G == Returned(b)
            IN  /\ Cardinality(Roots(G)) = 1
                /\ \A r \in Roots(G) :
                       /\ IsNode(G, r, lbl_START, "oval", "#C8E6C9")
                       /\ ReachableFrom(G, {r}) = nodes(G)

\* a returned graph with a loop back-edge, a merge node and a statement node
C1_Witness ==
    /\ returned["A"] # <<>>
    /\ LET G == Returned("A")
       IN  /\ \E e \in edges(G) : G.edge[e] = "Loop"
           /\ \E n \in nodes(G) : G.node[n].label = lbl_Merge
           /\ \E n \in nodes(G) :
                  G.node[n].shape = "box" /\ G.node[n].fillcolor = "white"

(***************************************************************************)
(* C2: a builder used for a second parse call returns the graph a fresh    *)
(* builder returns for the second text.                                    *)
(***************************************************************************)
C2_ReuseEqualsFresh ==
    (Len(returned["A"]) = 2 /\ Len(returned["B"]) = 1) =>
        returned["A"][2] = returned["B"][1]

(***************************************************************************)
(* C3: a chain not closed by an else has, into its merge node, one         *)
(* unlabelled edge from every recorded branch exit and one more edge,      *)
(* labelled "False", from the last open decision: branches + 1 edges.      *)
(***************************************************************************)
C3_OpenChainEdges ==
    \A i \in DOMAIN hist.chains :
        LET c == hist.chains[i]
        IN  c.else_start = None =>
                /\ \A k \in DOMAIN c.exit_points :
                       HasEdge(HG, c.exit_points[k], c.merge, None)
                /\ HasEdge(HG, c.last_decision, c.merge, "False")
                /\ Cardinality(InEdges(HG, c.merge)) = Len(c.exit_points) + 1


Range(f) == {f[i] : i \in DOMAIN f}

\* the parse call hist describes has returned
ParseReturned == hist.b # None /\ active = None

HLines == lines[hist.b]

IsReturnNode(n) == \E i \in DOMAIN hist.returns : hist.returns[i].node = n

C5_Loop ==
    \A i \in DOMAIN hist.loops :
        LET L == hist.loops[i]
        IN  /\ L.header \in nodes(HG)
            /\ HG.node[L.header].shape = "diamond"
            /\ HG.node[L.header].fillcolor = "#FFF9C4"
            /\ HasEdge(HG, L.pred, L.header, None)
            /\ L.body_end \in ReachableFrom(HG, {L.header})
            /\ HasEdge(HG, L.body_end, L.header, "Loop")
            /\ IsNode(HG, L.exit, lbl_Exit, "point", "white")
            /\ HasEdge(HG, L.header, L.exit, "False")
            /\ InEdges(HG, L.exit) = {<<L.header, L.exit>>}
            /\ ParseReturned => out_degree(HG, L.exit) = 1

\* a returned graph with a loop whose body ended by a return line and a
\* loop whose body is empty
C5_Witness ==
    /\ ParseReturned
    /\ \E i \in DOMAIN hist.loops : IsReturnNode(hist.loops[i].body_end)
    /\ \E i \in DOMAIN hist.loops :
           hist.loops[i].body_end = hist.loops[i].header

(***************************************************************************)
(* C6: a return line gives one return node connected from the predecessor  *)
(* (the node of the flushed buffer, if lines were pending); the call       *)
(* returns that node at once, the cursor just past the return line; and a  *)
(* return node that is the exit of a chain's branch has an edge to the     *)
(* chain's merge node.                                                     *)
(***************************************************************************)
C6_Return ==
    /\ \A i \in DOMAIN hist.returns :
        LET r == hist.returns[i]
        IN  /\ IsNode(HG, r.node, clean_label(HLines[r.line + 1]),
                      "box", "#FFCDD2")
            /\ HasEdge(HG, r.pred, r.node, None)
            /\ InEdges(HG, r.node) = {<<r.pred, r.node>>}
            /\ \A j \in DOMAIN hist.returns :
                   j # i => hist.returns[j].node # r.node
            /\ (r.line - 1) \in hist.buffered =>
                   \E k \in DOMAIN hist.flushes :
                       /\ hist.flushes[k].node = r.pred
                       /\ (r.line - 1) \in Range(hist.flushes[k].idx)
    /\ (hist.returns # <<>> /\ retval = hist.returns[Len(hist.returns)].node) =>
           LET r == hist.returns[Len(hist.returns)]
           IN  /\ cursor[hist.b] = r.line + 1
               /\ Len(stack) = r.depth - 1
    /\ \A i \in DOMAIN hist.chains :
           \A k \in DOMAIN hist.chains[i].exit_points :
               IsReturnNode(hist.chains[i].exit_points[k]) =>
                   <<hist.chains[i].exit_points[k], hist.chains[i].merge>>
                       \in edges(HG)

\* a returned graph in which a branch of a chain ended by a return line,
\* with statement lines pending before the return
C6_Witness ==
    /\ ParseReturned
    /\ \E i \in DOMAIN hist.chains :
           \E k \in DOMAIN hist.chains[i].exit_points :
               IsReturnNode(hist.chains[i].exit_points[k])
    /\ \E i \in DOMAIN hist.returns :
           (hist.returns[i].line - 1) \in hist.buffered


\* a line that parse_block buffers: no keyword prefix, no brace line
StatementLine(b, l) ==
    /\ ~startswith(l, kw_elif) /\ ~startswith(l, kw_else)
    /\ ~(mode[b] = "c_style" /\ l \in {lbrace, rbrace})
    /\ ~startswith(l, kw_for) /\ ~startswith(l, kw_while)
    /\ ~startswith(l, kw_if) /\ ~startswith(l, kw_return)

\* C7, the part that does not depend on the form of the label
C7_Runs ==
    /\ \A i \in DOMAIN hist.flushes :
        LET f == hist.flushes[i]
            n == Len(f.buffer)
        IN  /\ n >= 1 /\ Len(f.idx) = n
            /\ \A k \in 1..n : f.buffer[k] = HLines[f.idx[k] + 1]
            /\ f.node \in nodes(HG)
            /\ HG.node[f.node].shape = "box"
            /\ HG.node[f.node].fillcolor = "white"
            /\ HasEdge(HG, f.pred, f.node, None)
            /\ InEdges(HG, f.node) = {<<f.pred, f.node>>}
            /\ \A j \in DOMAIN hist.flushes :
                   j # i => /\ hist.flushes[j].node # f.node
                            /\ Range(hist.flushes[j].idx) \cap Range(f.idx) = {}
            /\ (f.idx[1] - 1) \notin hist.buffered
            /\ (f.idx[n] + 1) \notin hist.buffered
            /\ ParseReturned => out_degree(HG, f.node) = 1
    /\ ParseReturned /\ Len(returned[hist.b]) = 1 =>
           /\ {n \in nodes(HG) : HG.node[n].shape = "box"
                                 /\ HG.node[n].fillcolor = "white"}
                  = {hist.flushes[i].node : i \in DOMAIN hist.flushes}
           /\ hist.buffered
                  = UNION {Range(hist.flushes[i].idx) : i \in DOMAIN hist.flushes}
           /\ (HLines # <<>>
               /\ \A k \in DOMAIN HLines : StatementLine(hist.b, HLines[k])) =>
                  /\ number_of_nodes(HG) = 3
                  /\ number_of_edges(HG) = 2
                  /\ Len(hist.flushes) = 1

(***************************************************************************)
(* C7 as stated: every maximal run of consecutive non-control lines of a   *)
(* block becomes exactly one statement node whose label is the lines       *)
(* joined in order, connected from the predecessor and the new             *)
(* predecessor; no node for an empty buffer; an input of non-control       *)
(* lines only gives 3 nodes and 2 edges.                                   *)
(***************************************************************************)
C7_LabelIsJoinedLines ==
    /\ C7_Runs
    /\ \A i \in DOMAIN hist.flushes :
        LET f == hist.flushes[i]
        IN  /\ \A k \in 1..(Len(f.idx) - 1) : f.idx[k + 1] = f.idx[k] + 1
            /\ HG.node[f.node].label = join(f.buffer)

(***************************************************************************)
(* C7 as amended: every maximal run of buffered lines of a block (in brace *)
(* mode a "{" line between them is skipped and does not end the run)       *)
(* becomes exactly one statement node whose label is new_node's cleaned    *)
(* form of the lines joined in order (trimmed, double quotes replaced,     *)
(* shortened when longer than 40 characters); the rest as stated.          *)
(***************************************************************************)
C7_StatementRuns ==
    /\ C7_Runs
    /\ \A i \in DOMAIN hist.flushes :
        LET f == hist.flushes[i]
        IN  /\ \A k \in 1..(Len(f.idx) - 1) :
                   /\ f.idx[k] < f.idx[k + 1]
                   /\ \A x \in (f.idx[k] + 1)..(f.idx[k + 1] - 1) :
                          mode[hist.b] = "c_style" /\ HLines[x + 1] = lbrace
            /\ HG.node[f.node].label = clean_label(join(f.buffer))

\* a returned graph with a statement node made of two lines whose label
\* is not the joined lines themselves
C7_Witness ==
    /\ ParseReturned
    /\ \E i \in DOMAIN hist.flushes :
           /\ Len(hist.flushes[i].buffer) >= 2
           /\ clean_label(join(hist.flushes[i].buffer))
                  # join(hist.flushes[i].buffer)

C9_Metrics ==
    /\ Len(metrics) >= 1 => DOMAIN metrics[1] = {}
    /\ Len(metrics) >= 2 =>
           LET G == graph["A"]
               m == metrics[2]
           IN  /\ DOMAIN m = {"Nodes", "Edges", "Complexity", "Predicates",
                              "Regions"}
               /\ m.Nodes = Cardinality(DOMAIN G.node)
               /\ m.Edges = Cardinality(DOMAIN G.edge)
               /\ m.Predicates =
                      Cardinality({n \in DOMAIN G.node :
                          \E d, e \in DOMAIN G.edge :
                              d # e /\ d[1] = n /\ e[1] = n})
               /\ m.Complexity = m.Edges - m.Nodes + 2
               /\ m.Regions = m.Complexity

\* both calls made, the second on a graph with two predicate nodes
C9_Witness ==
    /\ Len(metrics) = 2
    /\ metrics[1] = EmptyDict
    /\ metrics[2].Predicates >= 2

(***************************************************************************)
(* C10: in brace mode, after a return line inside a braced body, the       *)
(* body's "}" ends that body only and the enclosing block goes on with     *)
(* the next line: a statement line right after that "}" is parsed (it is   *)
(* buffered and becomes part of a node).                                   *)
(***************************************************************************)
C10_StatementAfterBracedReturn ==
    ParseReturned =>
        \A i \in DOMAIN hist.returns :
            LET r == hist.returns[i]
            IN  (/\ mode[hist.b] = "c_style"
                 /\ r.braced /\ r.depth >= 2
                 /\ r.line + 3 <= Len(HLines)
                 /\ HLines[r.line + 2] = rbrace
                 /\ StatementLine(hist.b, HLines[r.line + 3]))
                => (r.line + 2) \in hist.buffered

(***************************************************************************)
(* C11: during parse the graph only grows: a node, once added, stays and   *)
(* keeps its label, shape, style and fill colour; an edge (source, target),*)
(* once added, stays and keeps its label; every edge label is one of None, *)
(* "False", "Loop".                                                        *)
(***************************************************************************)
EdgeLabels == {None, "False", "Loop"}

C11_AppendOnly ==
    [][\A b \in Builders :
          /\ \A n \in nodes(graph[b]) :
                 /\ n \in nodes(graph'[b])
                 /\ graph'[b].node[n] = graph[b].node[n]
          /\ \A e \in edges(graph[b]) :
                 /\ e \in edges(graph'[b])
                 /\ graph'[b].edge[e] = graph[b].edge[e]
          /\ \A e \in edges(graph'[b]) : graph'[b].edge[e] \in EdgeLabels]_vars

\* the same without the clause on the labels of the edges already there
C11_Grows ==
    [][\A b \in Builders :
          /\ \A n \in nodes(graph[b]) :
                 /\ n \in nodes(graph'[b])
                 /\ graph'[b].node[n] = graph[b].node[n]
          /\ edges(graph[b]) \subseteq edges(graph'[b])
          /\ \A e \in edges(graph'[b]) : graph'[b].edge[e] \in EdgeLabels]_vars

(***************************************************************************)
(* C12: a block whose current line starts with elif or else flushes its    *)
(* buffer and returns the node it is at, and the cursor stays on that      *)
(* line; a block that returns at a "}" line (c_style) has flushed the      *)
(* same way and the cursor is one past that line.                          *)
(***************************************************************************)
\* the step ends the running call: its buffer, if any, became one new box
\* node after current_node, and the call returned the node the block is at
EndsFlushed ==
    LET f  == Frame
        G  == graph[active]
        G2 == graph'[active]
    IN  /\ stack' = Tail(stack)
        /\ IF f.buffer = <<>>
           THEN retval' = f.current_node /\ G2 = G
           ELSE /\ retval' \notin nodes(G)
                /\ nodes(G2) = nodes(G) \cup {retval'}
                /\ G2.node[retval'].shape = "box"
                /\ edges(G2) = edges(G) \cup {<<f.current_node, retval'>>}
                /\ G2.edge[<<f.current_node, retval'>>] = None

C12_PeekAndBrace ==
    [][/\ (InBlock /\ ~AtEnd /\ IsPeek) =>
              (EndsFlushed /\ cursor' = cursor)
       /\ (InBlock /\ ~AtEnd /\ IsBlockEnd) =>
              (EndsFlushed /\ cursor' = [cursor EXCEPT ![active] = @ + 1])]_vars

\* a block has just stopped at an elif/else line with a buffer to flush,
\* in a c_style text where an earlier block returned at a "}" line
C12_Witness ==
    /\ active # None /\ retval # None
    /\ hist.peeks # <<>>
    /\ hist.peeks[Len(hist.peeks)].line = cursor[active]
    /\ hist.flushes # <<>>
    /\ hist.flushes[Len(hist.flushes)].node = retval
    /\ hist.closed # {}

(***************************************************************************)
(* C13: every elif/else line at which a block stopped by the peek rule is  *)
(* later consumed by the chain loop of an enclosing if (ChainElif or       *)
(* ChainElse, which make its decision node or Else connector), whatever    *)
(* the block that stopped: when parse has returned, each such line has     *)
(* been taken by a chain.                                                  *)
(***************************************************************************)
C13_PeekedLineConsumed ==
    ParseReturned =>
        \A i \in DOMAIN hist.peeks : hist.peeks[i].line \in hist.taken

\* a call above the block that stopped is waiting for the branch of an if
\* or elif, so that its chain loop is still to run
OpenChainAbove(p) ==
    \E k \in DOMAIN p.callers : p.callers[k] \in {"true_branch", "elif_branch"}

\* what becomes of the line: a chain takes it if one is open above the
\* block; otherwise no call takes it and parse returns with the cursor on it
PeekedLineFate ==
    ParseReturned =>
        \A i \in DOMAIN hist.peeks :
            LET p == hist.peeks[i]
            IN  IF OpenChainAbove(p)
                THEN p.line \in hist.taken
                ELSE /\ p.line \notin hist.taken
                     /\ cursor[hist.b] = p.line
                     /\ cursor[hist.b] < Len(HLines)

(***************************************************************************)
(* C14: within one parse call no step of any parse_block call decreases    *)
(* the cursor, the cursor is always between 0 and the number of lines, and *)
(* looking at the current line for elif/else (the peek of the block loop,  *)
(* the test of the chain loop that finds neither) leaves it unchanged.     *)
(***************************************************************************)
C14_CursorMonotone ==
    /\ [](\A b \in Builders : 0 <= cursor[b] /\ cursor[b] <= Len(lines[b]))
    /\ [][/\ (active # None => cursor'[active] >= cursor[active])
          /\ ((InBlock /\ ~AtEnd /\ IsPeek) => cursor' = cursor)
          /\ ((InChain /\ ~ChainIsElif /\ ~ChainIsElse) => cursor' = cursor)]_vars

\* parse has returned with the cursor at the end of three or more lines,
\* after a block stopped at an elif/else line that a chain then took
C14_Witness ==
    /\ ParseReturned
    /\ cursor[hist.b] = Len(HLines) /\ Len(HLines) >= 3
    /\ hist.peeks # <<>> /\ hist.taken # {}

(***************************************************************************)
(* C15: parse terminates on every text.  Every pass of the block loop      *)
(* ends the call or moves the cursor one line on, every pass of the chain  *)
(* loop leaves the loop or moves the cursor one line on; so the depth of   *)
(* the parse_block calls is at most the number of lines consumed plus one, *)
(* the nodes made by a call of parse are at most two per line plus START   *)
(* and END, and a measure of the work left, a natural number that is at    *)
(* most six per line plus a constant, decreases with every step; a run     *)
(* that has not ended has a step to take.                                  *)
(***************************************************************************)
Finished == plan = <<>> /\ active = None

\* the steps a call at pc can take before it consumes a line or returns
PcWeight(pc) ==
    CASE pc = "block" -> 2
      [] pc = "loop_body" -> 2
      [] pc = "merge_decision" -> 3
      [] pc = "merge" -> 4
      [] pc \in {"chain", "true_branch", "elif_branch", "else_branch"} -> 5

RECURSIVE StackRank(_)
StackRank(s) ==
    IF s = <<>> THEN 0 ELSE PcWeight(Head(s).pc) + StackRank(Tail(s))

\* a text of n characters gives at most 3 * n + 1 lines: every character
\* is at most one line break, and "{", "}" bring two more, ";" one more
RECURSIVE PlanRank(_)
PlanRank(p) ==
    IF p = <<>> THEN 0
    ELSE (IF Head(p).op = "parse"
          THEN 6 * (3 * Len(Head(p).text) + 1) + 3
          ELSE 1)
         + PlanRank(Tail(p))

Rank ==
    PlanRank(plan)
    + (IF active = None THEN 0
       ELSE 6 * (Len(lines[active]) - cursor[active]) + StackRank(stack)
            + (IF retval # None THEN 1 ELSE 0))

\* the running call is at a place where the source has a next step
CanStep ==
    \/ active = None /\ plan # <<>>
    \/ active # None /\ stack = <<>> /\ retval # None
    \/ /\ active # None /\ stack # <<>> /\ retval = None
       /\ Frame.pc \in {"block", "chain", "merge", "merge_decision"}
    \/ /\ active # None /\ stack # <<>> /\ retval # None
       /\ Frame.pc \in {"loop_body", "true_branch", "elif_branch", "else_branch"}

C15_Terminates ==
    /\ [](/\ Rank >= 0
          /\ Finished \/ CanStep
          /\ active # None =>
                /\ Len(stack) <= cursor[active] + 1
                /\ number_of_nodes(graph[active]) <= 2 * Len(lines[active]) + 2)
    /\ [][/\ Rank' < Rank
          /\ ((InBlock /\ ~AtEnd) =>
                 \/ stack' = Tail(stack)
                 \/ cursor' = [cursor EXCEPT ![active] = @ + 1])
          /\ (InChain =>
                 \/ Head(stack').pc = "merge"
                 \/ cursor' = [cursor EXCEPT ![active] = @ + 1])]_vars

\* a run has ended after parsing three or more lines with a loop and a chain
C15_Witness ==
    /\ Finished /\ hist.b # None
    /\ Len(HLines) >= 3
    /\ hist.loops # <<>> /\ hist.chains # <<>>

(***************************************************************************)
(* C16: in c_style, a nested parse_block call that meets the end of the    *)
(* input (its "}" missing) turns its buffer, if any, into one node after   *)
(* the node it is at and returns that node; parse then returns, with every *)
(* enclosing loop closed by its back-edge and its exit node, every         *)
(* enclosing chain closed by its merge node, and END the last node, with   *)
(* an incoming edge and reachable from START.                              *)
(***************************************************************************)
NestedEof(e) == mode[hist.b] = "c_style" /\ e.depth >= 2

EndNode == node_id_of(node_counter[hist.b])

C16_MalformedInputEnd ==
    \A i \in DOMAIN hist.eofs :
        LET e == hist.eofs[i]
        IN  NestedEof(e) =>
              /\ IF e.buffer = <<>>
                 THEN e.node = e.pred
                 ELSE /\ e.node # e.pred
                      /\ IsNode(HG, e.node, clean_label(join(e.buffer)),
                                "box", "white")
                      /\ HasEdge(HG, e.pred, e.node, None)
              /\ ParseReturned =>
                    /\ \A k \in DOMAIN e.callers :
                           LET c == e.callers[k]
                           IN  IF c.pc = "loop_body"
                               THEN \E j \in DOMAIN hist.loops :
                                        LET l == hist.loops[j]
                                        IN  /\ l.header = c.loop_cond
                                            /\ HasEdge(HG, l.body_end,
                                                       l.header, "Loop")
                                            /\ IsNode(HG, l.exit, lbl_Exit,
                                                      "point", "white")
                                            /\ HasEdge(HG, l.header, l.exit,
                                                       "False")
                               ELSE \E j \in DOMAIN hist.chains :
                                        LET ch == hist.chains[j]
                                        IN  /\ ch.decisions[1] = c.cond_node
                                            /\ IsNode(HG, ch.merge, lbl_Merge,
                                                      "point", "white")
                                            /\ \A x \in Range(ch.exit_points) :
                                                   <<x, ch.merge>> \in edges(HG)
                    /\ IsNode(HG, EndNode, lbl_END, "oval", "#FFCDD2")
                    /\ in_degree(HG, EndNode) = 1
                    /\ EndNode \in ReachableFrom(HG, Roots(HG))

\* parse has returned after a call three deep, inside the branch of an if
\* inside a loop body, met the end of a c_style input with lines buffered
C16_Witness ==
    /\ ParseReturned
    /\ \E i \in DOMAIN hist.eofs :
           LET e == hist.eofs[i]
           IN  /\ NestedEof(e) /\ e.depth >= 3 /\ e.braced
               /\ e.buffer # <<>>
               /\ \E k \in DOMAIN e.callers : e.callers[k].pc = "loop_body"
               /\ \E k \in DOMAIN e.callers : e.callers[k].pc = "true_branch"

(***************************************************************************)
(* C17: in the graph parse returns on a fresh builder, the nodes with more *)
(* than one outgoing edge are exactly the decision nodes, one for each if, *)
(* elif, for and while line parsed, and the Predicates metric is their     *)
(* number.                                                                 *)
(***************************************************************************)
DecisionNodes(G) == {n \in nodes(G) : G.node[n].shape = "diamond"}

\* the decision nodes the calls made: loop headers and the nodes of chains
HistDecisions ==
    {hist.loops[i].header : i \in DOMAIN hist.loops}
        \cup UNION {Range(hist.chains[i].decisions) : i \in DOMAIN hist.chains}

Branching(G) == {n \in nodes(G) : out_degree(G, n) > 1}

C17_PredicatesAreDecisions ==
    Len(metrics) >= 2 =>
        LET G == graph["A"]
        IN  /\ DecisionNodes(G) = HistDecisions
            /\ Branching(G) = DecisionNodes(G)
            /\ metrics[2].Predicates = Cardinality(DecisionNodes(G))

\* the decision nodes with one outgoing edge are the last decisions of the
\* chains without else whose last branch is empty, and no other node branches
OpenEmptyLast ==
    {hist.chains[i].last_decision : i \in
        {j \in DOMAIN hist.chains :
            /\ hist.chains[j].last_decision # None
            /\ hist.chains[j].exit_points[Len(hist.chains[j].exit_points)]
                   = hist.chains[j].last_decision}}

PredicatesButOpenEmpty ==
    Len(metrics) >= 2 =>
        LET G == graph["A"]
        IN  /\ DecisionNodes(G) = HistDecisions
            /\ Branching(G) = DecisionNodes(G) \ OpenEmptyLast
            /\ OpenEmptyLast \subseteq DecisionNodes(G)
            /\ metrics[2].Predicates
                   = Cardinality(DecisionNodes(G)) - Cardinality(OpenEmptyLast)

(***************************************************************************)
(* C18: in the graph parse returns on a fresh builder, END is the only     *)
(* node without an outgoing edge, END is the node created last, and END is *)
(* reachable from every node.                                              *)
(***************************************************************************)
Sinks(G) == {n \in nodes(G) : out_degree(G, n) = 0}

C18_SingleExit ==
    ParseReturned =>
        /\ IsNode(HG, EndNode, lbl_END, "oval", "#FFCDD2")
        /\ EndNode = node_id_of(number_of_nodes(HG))
        /\ Sinks(HG) = {EndNode}
        /\ \A n \in nodes(HG) : EndNode \in ReachableFrom(HG, {n})

\* parse has returned a graph with a return node, a loop and a chain
C18_Witness ==
    /\ ParseReturned
    /\ hist.returns # <<>> /\ hist.loops # <<>> /\ hist.chains # <<>>
    /\ number_of_nodes(HG) >= 6

====
